---------------------------- MODULE Spec2Model ----------------------------
(***************************************************************************)
(* SafeSpace (src/app.py): the response-generation pipeline                *)
(*   get_ai_response -> EnhancedGraph.stream -> detect_crisis /            *)
(*   detect_emotions / _generate_response (_call_huggingface_api with its  *)
(*   retry loop, _enhance_response, _rule_based_response) -> parse_response*)
(* Texts are Python str values, modelled as TLA+ strings and processed     *)
(* character by character (lower, strip, replace, substring and regular    *)
(* expression search).  The source's non-ASCII glyphs are written as ASCII *)
(* tags: [SOS], [IN], [globe], [star], [bulb], [lungs], [blue heart],      *)
(* [seedling], [handshake], [yellow heart], and "*" for the bullet.        *)
(***************************************************************************)
EXTENDS Integers, Sequences, FiniteSets, TLC

(***************************************************************************)
(* Python str operations used by the source                                *)
(***************************************************************************)
Char(s, i) == SubSeq(s, i, i)

\* `k in s` on str
Contains(s, k) ==
  \E i \in 1..(Len(s) - Len(k) + 1) : SubSeq(s, i, i + Len(k) - 1) = k

UpperAlpha == "ABCDEFGHIJKLMNOPQRSTUVWXYZ"
LowerAlpha == "abcdefghijklmnopqrstuvwxyz"

LowerChar(c) ==
  IF \E i \in 1..Len(UpperAlpha) : Char(UpperAlpha, i) = c
    THEN Char(LowerAlpha, CHOOSE i \in 1..Len(UpperAlpha) : Char(UpperAlpha, i) = c)
    ELSE c

\* str.lower()
RECURSIVE lower(_)
lower(s) ==
  IF Len(s) = 0 THEN ""
  ELSE IF Len(s) = 1 THEN LowerChar(s)
  ELSE LET half == Len(s) \div 2
       IN  lower(SubSeq(s, 1, half)) \o lower(SubSeq(s, half + 1, Len(s)))

Whitespace == {" ", "\t", "\n", "\r"}

\* str.strip(): what lies between the first and the last character that is no
\* whitespace
strip(s) ==
  LET kept == {i \in 1..Len(s) : Char(s, i) \notin Whitespace}
  IN  IF kept = {} THEN ""
      ELSE SubSeq(s, CHOOSE i \in kept : \A j \in kept : i <= j,
                     CHOOSE i \in kept : \A j \in kept : j <= i)

\* str.replace(old, new) for a non-empty old: the occurrences are taken from the
\* left and do not overlap
RECURSIVE replace(_, _, _)
replace(s, old, new) ==
  LET found == {i \in 1..(Len(s) - Len(old) + 1) : SubSeq(s, i, i + Len(old) - 1) = old}
  IN  IF found = {} THEN s
      ELSE LET first == CHOOSE i \in found : \A j \in found : i <= j
           IN  SubSeq(s, 1, first - 1) \o new
                 \o replace(SubSeq(s, first + Len(old), Len(s)), old, new)

\* sep.join(parts)
RECURSIVE join(_, _)
join(sep, parts) ==
  IF parts = <<>> THEN ""
  ELSE IF Len(parts) = 1 THEN parts[1]
  ELSE parts[1] \o sep \o join(sep, Tail(parts))

(***************************************************************************)
(* Regular expressions of detect_crisis: \b(a|b|...)\b, optionally         *)
(* followed by .*\b(c|d|...)\b                                             *)
(***************************************************************************)
WordChars == "abcdefghijklmnopqrstuvwxyzABCDEFGHIJKLMNOPQRSTUVWXYZ0123456789_"

\* \w at position i of s (false outside the string)
IsWordAt(s, i) == i >= 1 /\ i <= Len(s) /\ Contains(WordChars, Char(s, i))

\* \b between the characters i and i+1 of s
WordBoundary(s, i) == IsWordAt(s, i) # IsWordAt(s, i + 1)

\* the literal w occupies s[i .. i+Len(w)-1] with \b on both sides
WordAt(s, i, w) ==
  /\ i + Len(w) - 1 <= Len(s)
  /\ SubSeq(s, i, i + Len(w) - 1) = w
  /\ WordBoundary(s, i - 1)
  /\ WordBoundary(s, i + Len(w) - 1)

\* re.search(pattern, s): pattern.head is the first alternation, pattern.tail the
\* alternation after ".*" (empty when the pattern has none); "." is not a newline
re_search(pattern, s) ==
  \E i \in 1..Len(s) : \E w \in pattern.head :
    /\ WordAt(s, i, w)
    /\ \/ pattern.tail = {}
       \/ \E k \in (i + Len(w))..Len(s) : \E v \in pattern.tail :
            /\ WordAt(s, k, v)
            /\ \A j \in (i + Len(w))..(k - 1) : Char(s, j) # "\n"

crisis_patterns ==
  << [head |-> {"suicide", "kill myself", "end it all", "want to die", "not worth living"},
      tail |-> {}],
     [head |-> {"harm myself", "hurt myself", "self harm", "cut myself"}, tail |-> {}],
     [head |-> {"overdose", "pills to die", "end my life"}, tail |-> {}],
     [head |-> {"gun", "knife", "rope", "bridge", "jump"}, tail |-> {"end", "die", "kill"}],
     [head |-> {"no point", "give up", "can't go on", "cant go on", "hopeless"},
      tail |-> {}],
     [head |-> {"better off dead", "world without me"}, tail |-> {}] >>

\* MentalHealthTools.detect_crisis
detect_crisis(message) ==
  LET message_lower == lower(message)
  IN  \E p \in 1..Len(crisis_patterns) : re_search(crisis_patterns[p], message_lower)

(***************************************************************************)
(* MentalHealthTools: emotion keywords and coping strategies               *)
(***************************************************************************)
\* the keys of emotion_keywords and of strategies, in dict (insertion) order
EmotionCatalog ==
  <<"anxiety", "depression", "anger", "stress", "loneliness", "grief", "confusion">>

emotion_keywords ==
  [anxiety |-> {"anxious", "worried", "nervous", "panic", "fear", "scared", "terrified", "petrified"},
     depression |-> {"sad", "depressed", "hopeless", "empty", "worthless", "tired", "numb", "hollow"},
     anger |-> {"angry", "mad", "frustrated", "furious", "rage", "irritated", "livid", "enraged"},
     stress |-> {"stressed", "overwhelmed", "pressure", "burden", "exhausted", "burned out", "swamped"},
     loneliness |-> {"lonely", "alone", "isolated", "disconnected", "abandoned", "forgotten", "excluded"},
     grief |-> {"grieving", "mourning", "loss", "bereaved", "heartbroken", "devastated"},
     confusion |-> {"confused", "lost", "uncertain", "directionless", "unclear", "mixed up"} ]

\* the place of the first occurrence of a keyword of the label in the text
first_keyword_at(text, emotion) ==
  CHOOSE i \in 1..Len(text) :
    /\ \E keyword \in emotion_keywords[emotion] :
         i + Len(keyword) - 1 <= Len(text) /\ SubSeq(text, i, i + Len(keyword) - 1) = keyword
    /\ \A j \in 1..(i - 1) :
         \A keyword \in emotion_keywords[emotion] :
           ~(j + Len(keyword) - 1 <= Len(text) /\ SubSeq(text, j, j + Len(keyword) - 1) = keyword)

\* detect_emotions reporting the labels in the order their keywords appear in the text
detect_emotions_discovery_order(message) ==
  LET message_lower == lower(message)
      found == SelectSeq(EmotionCatalog,
                         LAMBDA emotion :
                           \E keyword \in emotion_keywords[emotion] :
                             Contains(message_lower, keyword))
  IN  SortSeq(found, LAMBDA a, b : first_keyword_at(message_lower, a)
                                     < first_keyword_at(message_lower, b))

\* MentalHealthTools.detect_emotions: the labels in catalog order
detect_emotions(message) ==
  LET message_lower == lower(message)
  IN  SelectSeq(EmotionCatalog,
                LAMBDA emotion :
                  \E keyword \in emotion_keywords[emotion] :
                    Contains(message_lower, keyword))

strategies ==
  [anxiety |->
       "Try the 4-7-8 breathing technique: inhale for 4, hold for 7, exhale for 8. Use the 5-4-3-2-1 grounding method: name 5 things you see, 4 you hear, 3 you touch, 2 you smell, 1 you taste.",
     depression |->
       "Small steps count. Try the 'one tiny thing' approach - do just one small positive action today. Consider sunlight exposure, gentle movement, or connecting with someone who cares about you.",
     anger |->
       "Use the STOP technique: Stop what you're doing, Take a deep breath, Observe your feelings, Proceed mindfully. Try the 6-second rule - strong emotions peak and start to fade after 6 seconds.",
     stress |->
       "Try the HALT check: are you Hungry, Angry, Lonely, or Tired? Address basic needs first. Use the 2-minute rule: if it takes less than 2 minutes, do it now to reduce mental load.",
     loneliness |->
       "Reach out with a 'thinking of you' message to someone. Join online communities, volunteer virtually, or try co-working spaces. Remember: loneliness is temporary.",
     grief |->
       "Allow yourself to feel. Grief comes in waves - that's normal. Create a small ritual to honor what you've lost. Consider grief support groups or counseling.",
     confusion |->
       "Write down what you know for sure, then what you're uncertain about. Break big decisions into smaller steps. It's okay not to have all the answers right now." ]

GenericSelfCare ==
  "Practice self-compassion today. Treat yourself with the same kindness you'd show a good friend."

\* get_coping_strategies that advises on the first label only
get_coping_strategies_first_only(emotions) ==
  IF emotions = <<>> THEN GenericSelfCare
  ELSE IF emotions[1] \in DOMAIN strategies THEN strategies[emotions[1]]
  ELSE ""

\* get_coping_strategies going through the catalog instead of the labels given
get_coping_strategies_catalog_order(emotions) ==
  IF emotions = <<>> THEN GenericSelfCare
  ELSE LET known == SelectSeq(EmotionCatalog,
                              LAMBDA emotion : \E i \in 1..Len(emotions) : emotions[i] = emotion)
       IN  join(" ", [i \in 1..Len(known) |-> strategies[known[i]]])

\* MentalHealthTools.get_coping_strategies: the strategies of the given labels, in the
\* order given, unknown labels and empty texts dropped, joined by a space
get_coping_strategies(emotions) ==
  IF emotions = <<>> THEN GenericSelfCare
  ELSE LET known == SelectSeq(emotions, LAMBDA emotion : emotion \in DOMAIN strategies)
           selected_strategies == [i \in 1..Len(known) |-> strategies[known[i]]]
       IN  join(" ", SelectSeq(selected_strategies, LAMBDA t : t # ""))

(***************************************************************************)
(* EnhancedGraph: the fixed replies                                        *)
(***************************************************************************)
\* a crisis reply with self-care advice appended
handle_crisis_with_coping ==
  [response |->
     "[SOS] **I'm very concerned about what you're sharing.**\n\n[bulb] "
       \o get_coping_strategies(<<>>),
   tool |-> "crisis_intervention"]

\* EnhancedGraph._handle_crisis
handle_crisis ==
  [response |->
     "[SOS] **I'm very concerned about what you're sharing. Your life has value and there are people who want to help.**\n\n**[IN] Immediate Support in India:**\n* **Call 9152987821** - AASRA Suicide Prevention (24/7)\n* **Call 1860-266-2345** - Vandrevala Foundation (24/7, free)\n* **Call 1800-599-0019** - Kiran Mental Health Helpline\n* **WhatsApp +91 9820466726** - Connecting NGO\n\n**[globe] International:**\n* **Call 988** - US Suicide & Crisis Lifeline\n* **Text HELLO to 741741** - Crisis Text Line\n\n[star] **You are not alone.** Professional counselors are available right now to talk with you.\n\nWould you like to talk about what's bringing up these feelings? I'm here to listen without judgment.",
   tool |-> "crisis_intervention"]

\* EnhancedGraph._fallback_response
fallback_response ==
  [response |->
     "I'm here to listen and support you. Even when technology has hiccups, my commitment to being here for you remains constant. How are you feeling right now? What's on your mind?",
   tool |-> "technical_fallback"]

\* an enhance step that returns the completion alone
enhance_response_base_only(base_response, emotions) == base_response

\* EnhancedGraph._enhance_response
enhance_response(base_response, emotions) ==
  IF emotions = <<>> THEN base_response
  ELSE LET coping_strategies == get_coping_strategies(emotions)
           emotion_str == join(", ", emotions)
       IN  IF coping_strategies # ""
             THEN base_response \o "\n\n[bulb] **For " \o emotion_str \o ":** "
                    \o coping_strategies
             ELSE base_response

(***************************************************************************)
(* EnhancedGraph._rule_based_response: the fallback tree                   *)
(***************************************************************************)
greetings ==
  {"hello", "hi", "hey", "good morning", "good afternoon", "good evening", "start", "beginning"}

AnxietyWords == {"anxious", "worried", "panic", "scared"}
DepressionWords == {"sad", "depressed", "hopeless", "empty", "worthless"}
StressWords == {"stressed", "overwhelmed", "pressure", "burned", "exhausted"}
LonelinessWords == {"lonely", "alone", "isolated", "disconnected"}
\* gratitude words that miss the plural form
GratitudeWords_thank_you_only == {"thank you", "grateful", "appreciate"}
GratitudeWords == {"thank", "thanks", "grateful", "appreciate"}
CheckInPhrases == {"how are you", "are you okay", "how do you feel"}

\* any(word in message_lower for word in words)
AnyIn(words, message_lower) == \E word \in words : Contains(message_lower, word)

\* `label in emotions` on a list
InList(label, emotions) == \E i \in 1..Len(emotions) : emotions[i] = label

GreetingReply ==
  [response |->
     "Hello and welcome to SafeSpace! [star] I'm here to listen without judgment and support you through whatever you're experiencing. How are you feeling today? Take your time - there's no pressure to share more than you're comfortable with.",
   tool |-> "warm_greeting"]

\* an anxiety reply that asks the advisor for no label
AnxietyReply_generic_advice ==
  [response |->
     "I can hear the anxiety in your words, and I want you to know that what you're feeling is real and valid. Anxiety can feel overwhelming, but you're not alone in this experience."
       \o "\n\n[lungs] **Try this breathing technique:** "
       \o get_coping_strategies(<<>>),
   tool |-> "anxiety_support"]

AnxietyReply ==
  [response |->
     "I can hear the anxiety in your words, and I want you to know that what you're feeling is real and valid. Anxiety can feel overwhelming, but you're not alone in this experience."
       \o "\n\n[lungs] **Try this breathing technique:** "
       \o get_coping_strategies(<<"anxiety">>),
   tool |-> "anxiety_support"]

DepressionReply ==
  [response |->
     "I hear the pain in your words, and I want you to know that your feelings are completely valid. Depression can make everything feel heavy and difficult, but please know that you matter and you're not alone."
       \o "\n\n[blue heart] **Gentle reminder:** "
       \o get_coping_strategies(<<"depression">>),
   tool |-> "depression_support"]

StressReply ==
  [response |->
     "It sounds like you're carrying a heavy load right now. Feeling stressed and overwhelmed is exhausting, and it takes real strength to reach out for support."
       \o "\n\n[seedling] **Stress relief technique:** "
       \o get_coping_strategies(<<"stress">>),
   tool |-> "stress_management"]

LonelinessReply ==
  [response |->
     "Loneliness can feel so painful and isolating. I want you to know that reaching out here shows incredible courage, and you're taking a step toward connection right now."
       \o "\n\n[handshake] **Connection idea:** "
       \o get_coping_strategies(<<"loneliness">>),
   tool |-> "loneliness_support"]

GratitudeReply ==
  [response |->
     "You're so welcome. [yellow heart] It takes real courage to reach out and talk about these things. I'm honored that you chose to share with me. Remember, seeking support is a sign of strength, not weakness. How else can I support you today?",
   tool |-> "gratitude_response"]

CheckInReply ==
  [response |->
     "Thank you for asking! As an AI, I don't have feelings, but I'm here and fully focused on you. What matters most right now is how *you* are doing. I'm ready to listen to whatever you'd like to share.",
   tool |-> "check_in_redirect"]

\* a default reply made of the acknowledgment alone
DefaultReply_acknowledgment_only(emotions) ==
  [response |->
     IF emotions # <<>>
       THEN "I can sense you might be feeling " \o join(", ", emotions)
              \o ", and I want you to know those feelings are completely valid. "
       ELSE "",
   tool |-> "empathetic_listening"]

DefaultReply(emotions) ==
  LET emotion_acknowledgment ==
        IF emotions # <<>>
          THEN "I can sense you might be feeling " \o join(", ", emotions)
                 \o ", and I want you to know those feelings are completely valid. "
          ELSE ""
  IN  [response |->
         emotion_acknowledgment
           \o "I'm here to listen and support you through whatever you're experiencing. Sometimes it helps to talk through what's on your mind. What would you like to share with me? Remember, you can share as much or as little as feels comfortable.",
       tool |-> "empathetic_listening"]

\* the fallback tree with the emotion branches tested before the greeting
rule_based_response_emotions_first(message, emotions) ==
  LET message_lower == lower(message)
  IN  IF InList("anxiety", emotions) \/ AnyIn(AnxietyWords, message_lower)
        THEN AnxietyReply
      ELSE IF InList("depression", emotions) \/ AnyIn(DepressionWords, message_lower)
        THEN DepressionReply
      ELSE IF InList("stress", emotions) \/ AnyIn(StressWords, message_lower)
        THEN StressReply
      ELSE IF InList("loneliness", emotions) \/ AnyIn(LonelinessWords, message_lower)
        THEN LonelinessReply
      ELSE IF AnyIn(greetings, message_lower) THEN GreetingReply
      ELSE IF AnyIn(GratitudeWords, message_lower) THEN GratitudeReply
      ELSE IF AnyIn(CheckInPhrases, message_lower) THEN CheckInReply
      ELSE DefaultReply(emotions)

rule_based_response(message, emotions) ==
  LET message_lower == lower(message)
  IN  IF AnyIn(greetings, message_lower) THEN GreetingReply
      ELSE IF InList("anxiety", emotions) \/ AnyIn(AnxietyWords, message_lower)
        THEN AnxietyReply
      ELSE IF InList("depression", emotions) \/ AnyIn(DepressionWords, message_lower)
        THEN DepressionReply
      ELSE IF InList("stress", emotions) \/ AnyIn(StressWords, message_lower)
        THEN StressReply
      ELSE IF InList("loneliness", emotions) \/ AnyIn(LonelinessWords, message_lower)
        THEN LonelinessReply
      ELSE IF AnyIn(GratitudeWords, message_lower) THEN GratitudeReply
      ELSE IF AnyIn(CheckInPhrases, message_lower) THEN CheckInReply
      ELSE DefaultReply(emotions)

(***************************************************************************)
(* EnhancedGraph._generate_response, given what _call_huggingface_api      *)
(* returned ("" when it was not called)                                    *)
(***************************************************************************)
\* a fallback that forgets the detected labels
generate_response_labels_dropped(api_text, message, emotions) ==
  IF api_text # ""
    THEN [response |-> enhance_response(api_text, emotions),
          tool |-> "ai_therapy_conversation"]
    ELSE rule_based_response(message, <<>>)

generate_response(api_text, message, emotions) ==
  IF api_text # ""
    THEN [response |-> enhance_response(api_text, emotions),
          tool |-> "ai_therapy_conversation"]
    ELSE rule_based_response(message, emotions)

(***************************************************************************)
(* Configuration: get_hf_token and the module globals                      *)
(***************************************************************************)
\* get_hf_token without the final strip
get_hf_token_unstripped(env, secret) == IF env = "" THEN secret ELSE env

\* get_hf_token: the environment variable first, then the Streamlit secret
get_hf_token(env, secret) ==
  LET token == IF env = "" THEN secret ELSE env
  IN  strip(token)

\* the request prompt of _call_huggingface_api
Prompt(message) ==
  "You are a supportive mental health counselor. Respond with empathy and care.\nUser: "
    \o message \o "\nCounselor:"

retries == 2
MinTextLen == 10
ModelLoadingSleep == 3
RetrySleep == 1

(***************************************************************************)
(* Inputs: the messages of a turn, the startup configurations, what the    *)
(* inference service can answer to one request, and the exceptions a step  *)
(* of the pipeline can raise                                               *)
(***************************************************************************)
MaxTurns == 2

Messages ==
  { "",
    "I want to kill myself",
    "I feel hopeless and sad",
    "hello",
    "I'm feeling anxious and worried",
    "thanks so much",
    "How are you",
    "I burned my hand",
    "This is sad",
    "I am sad, stressed and lonely",
    "I feel lonely",
    "I am angry" }

\* (HF_TOKEN of os.environ, HF_TOKEN of st.secrets); "" stands for an absent entry
Configs ==
  { [env |-> "", secret |-> ""],
    [env |-> "   ", secret |-> ""],
    [env |-> " hf_env ", secret |-> ""],
    [env |-> "", secret |-> "hf_secret"] }

NoBody == [json |-> "none", items |-> <<>>]

\* generated_text values of a 200 answer to the request carrying `prompt`
GeneratedTexts(prompt) ==
  { "I hear you, and I am glad you reached out.",
    prompt \o " I hear you, and I am glad you reached out.",
    " I hear you. ",
    " Thank you. ",
    prompt,
    "" }

\* one requests.post: an exception, or a response with its status and JSON body
ServiceOutcomes(prompt) ==
  { [exc |-> "Timeout", status |-> "", body |-> NoBody],
    [exc |-> "ConnectionError", status |-> "", body |-> NoBody],
    [exc |-> "", status |-> "503", body |-> NoBody],
    [exc |-> "", status |-> "500", body |-> NoBody],
    [exc |-> "", status |-> "200", body |-> [json |-> "invalid", items |-> <<>>]],
    [exc |-> "", status |-> "200", body |-> [json |-> "dict", items |-> <<>>]],
    [exc |-> "", status |-> "200", body |-> [json |-> "list", items |-> <<>>]],
    [exc |-> "", status |-> "200", body |-> [json |-> "list of strings", items |-> <<>>]] }
  \cup
  { [exc |-> "", status |-> "200", body |-> [json |-> "list", items |-> <<t>>]] :
      t \in GeneratedTexts(prompt) }

NoException == ""
Exceptions == {"MemoryError: out of memory"}

(***************************************************************************)
(* _call_huggingface_api: one iteration of the retry loop                  *)
(***************************************************************************)
\* accepted_text without the minimum length
accepted_text_no_minimum(body, prompt) ==
  IF body.json = "list" /\ Len(body.items) > 0
    THEN strip(replace(strip(body.items[1]), prompt, ""))
    ELSE ""

\* the text accepted from a 200 response, "" when none is
accepted_text(body, prompt) ==
  IF body.json = "list" /\ Len(body.items) > 0
    THEN LET generated_text == strip(replace(strip(body.items[1]), prompt, ""))
         IN  IF generated_text # "" /\ Len(generated_text) > MinTextLen
               THEN generated_text ELSE ""
    ELSE ""

\* the exception raised inside the try block of the iteration, "" when none is:
\* requests.post raises, response.json() fails on a body that is not JSON, or
\* result[0].get fails on a first element that is not a mapping
raised_in_attempt(o) ==
  IF o.exc # "" THEN o.exc
  ELSE IF o.status = "200" /\ o.body.json = "invalid" THEN "ValueError"
  ELSE IF o.status = "200" /\ o.body.json = "list of strings" THEN "AttributeError"
  ELSE ""

Step(ctl, text, sleep, warning) ==
  [ctl |-> ctl, text |-> text, sleep |-> sleep, warning |-> warning]

\* on_response where a status other than 200 and 503 does not leave the loop
on_response_no_break(o, prompt, n) ==
  IF o.status = "200"
    THEN IF accepted_text(o.body, prompt) # ""
           THEN Step("return", accepted_text(o.body, prompt), 0, "")
           ELSE Step("next", "", 0, "")
  ELSE IF o.status = "503"
    THEN IF n < retries
           THEN Step("continue", "", ModelLoadingSleep, "")
           ELSE Step("next", "", 0, "")
  ELSE Step("next", "", 0,
            "API responded with status " \o o.status \o ". Using fallback response.")

\* what the try block does with a response: "return" the text, "continue" after a
\* sleep, "break", or "next" (the end of the loop body is reached)
on_response(o, prompt, n) ==
  IF o.status = "200"
    THEN IF accepted_text(o.body, prompt) # ""
           THEN Step("return", accepted_text(o.body, prompt), 0, "")
           ELSE Step("next", "", 0, "")
  ELSE IF o.status = "503"
    THEN IF n < retries
           THEN Step("continue", "", ModelLoadingSleep, "")
           ELSE Step("next", "", 0, "")
  ELSE Step("break", "", 0,
            "API responded with status " \o o.status \o ". Using fallback response.")

\* a timeout retried at once
on_timeout_no_sleep(n) ==
  IF n < retries THEN Step("continue", "", 0, "")
  ELSE Step("next", "", 0, "")

\* except requests.exceptions.Timeout
on_timeout(n) ==
  IF n < retries THEN Step("continue", "", RetrySleep, "")
  ELSE Step("next", "", 0, "")

\* on_exception that gives up at once
on_exception_abandon(n) ==
  Step("break", "", 0,
       "AI service temporarily unavailable. Using trained fallback responses.")

\* no except clause for the exception: it leaves _call_huggingface_api
on_exception_propagates(n) ==
  Step("raise", "", 0, "")

\* except Exception
on_exception(n) ==
  IF n < retries THEN Step("continue", "", RetrySleep, "")
  ELSE Step("next", "", 0,
            "AI service temporarily unavailable. Using trained fallback responses.")

loop_iteration(o, prompt, n) ==
  IF raised_in_attempt(o) = "Timeout" THEN on_timeout(n)
  ELSE IF raised_in_attempt(o) # "" THEN on_exception(n)
  ELSE on_response(o, prompt, n)

\* a loop that goes on for as long as the iteration asks for another one
loops_again_unbounded(step, n) ==
  step.ctl \in {"continue", "next"}

\* whether the for loop runs another iteration after this one
loops_again(step, n) ==
  step.ctl \in {"continue", "next"} /\ n < retries

(***************************************************************************)
(* stream, parse_response and get_ai_response                              *)
(***************************************************************************)
\* stream_route with the crisis check made only when no emotion is detected
stream_route_emotions_first(message) ==
  IF detect_emotions(message) # <<>> THEN "emotion_detect"
  ELSE IF detect_crisis(message) THEN "crisis_reply"
  ELSE "emotion_detect"

\* where stream goes after reading the message: the crisis check comes first
stream_route(message) ==
  IF detect_crisis(message) THEN "crisis_reply" ELSE "emotion_detect"

SYSTEM_PROMPT ==
  "You are SafeSpace, a compassionate AI mental health supporter. Your role is to:\n- Provide empathetic, non-judgmental support\n- Use active listening techniques\n- Offer coping strategies and resources\n- Recognize when professional help is needed\n- Maintain appropriate boundaries as an AI assistant\n\nRemember: You are not a replacement for professional therapy, but a supportive companion."

\* the inputs get_ai_response builds for graph.stream
get_ai_response_inputs(message) ==
  [messages |-> << <<"system", SYSTEM_PROMPT>>, <<"user", message>> >>]

\* a stream that takes its message from the start of the object's history
stream_user_message_first_of_history(stream_args, history) ==
  IF history = <<>> THEN stream_args.messages[2][2] ELSE history[1][2]

\* user_message = inputs["messages"][1][1]: stream takes the message from its
\* argument; self.conversation_history is in its reach and is not read
stream_user_message(stream_args, history) == stream_args.messages[2][2]

\* a history that keeps the latest message only
history_append_latest_only(history, message) == << <<"user", message>> >>

\* self.conversation_history.append(("user", user_message))
history_append(history, message) == Append(history, <<"user", message>>)

\* a crisis branch without the return after its yield: the generator goes on
stream_on_crisis_no_return(message) ==
  << handle_crisis, rule_based_response(message, detect_emotions(message)) >>

\* the items stream yields on the crisis branch before it returns
stream_on_crisis(message) == << handle_crisis >>

\* an except clause that shows the error and yields nothing
stream_on_exception_no_yield == <<>>

\* the items stream yields from its except clause
stream_on_exception == <<fallback_response>>

\* parse_response over the items the generator yields: next(stream) gives the
\* first one, StopIteration when there is none, and a missing key is caught
parse_response(items) ==
  IF items = <<>>
    THEN [tool |-> "error",
          response |-> "I'm having trouble processing that right now, but I'm still here to listen and support you."]
  ELSE IF {"tool", "response"} \subseteq DOMAIN items[1]
    THEN [tool |-> items[1].tool, response |-> items[1].response]
  ELSE [tool |-> "error",
        response |-> "I want to help you, but I'm experiencing some technical difficulties. Your feelings and experiences are still important to me. Can you tell me how you're feeling?"]

\* a status that tells a rule-based turn
ReturnStatusDegraded == "degraded"

\* the status get_ai_response returns with a parsed result
ReturnStatus == "success"

\* a return that reports the technical fallback of stream with status error
get_ai_response_return_error_after_fault(items) ==
  LET parsed == parse_response(items)
  IN  [response |-> parsed.response, tool |-> parsed.tool,
       status |-> IF parsed.tool = fallback_response.tool THEN "error" ELSE ReturnStatus]

\* get_ai_response: the value returned for the items of the stream
get_ai_response_return(items) ==
  LET parsed == parse_response(items)
  IN  [response |-> parsed.response, tool |-> parsed.tool, status |-> ReturnStatus]

\* what get_ai_response returns from its own except clause
get_ai_response_except ==
  [response |-> "I'm experiencing some technical difficulties, but I want you to know that I'm still here to support you. Your feelings and experiences matter. Can you tell me more about what's on your mind today?",
   tool |-> "fallback",
   status |-> "error"]

(***************************************************************************)
(* The pure functions of a turn, tabulated over the inputs of the model    *)
(* (a constant is evaluated once): table[m] is the function's value on m   *)
(***************************************************************************)
RouteTable == [m \in Messages |-> stream_route(m)]

EmotionsTable == [m \in Messages |-> detect_emotions(m)]

RuleBasedTable ==
  [m \in Messages |->
               [es \in {EmotionsTable[m]} |-> rule_based_response(m, es)]]

OutcomesTable == [m \in Messages |-> ServiceOutcomes(Prompt(m))]

IterationTable ==
  [m \in Messages |->
               [o \in OutcomesTable[m] |->
                            [a \in 0..retries |->
                                         loop_iteration(o, Prompt(m), a)]]]

\* the texts _call_huggingface_api can return for a message, "" included
ApiTextsTable ==
  [m \in Messages |->
               {""} \cup {IterationTable[m][o][a].text :
                            o \in OutcomesTable[m], a \in 0..retries}]

GenerateTable ==
  [m \in Messages |->
               [es \in {EmotionsTable[m]} |->
                            [t \in ApiTextsTable[m] |-> generate_response(t, m, es)]]]

(***************************************************************************)
(* State                                                                   *)
(***************************************************************************)
VARIABLES
  config,                \* the environment the module was loaded in
  HF_TOKEN,              \* module global
  api_available,         \* graph.api_available
  conversation_history,  \* graph.conversation_history
  pc,                    \* where the current turn is
  stream_inputs,         \* the argument get_ai_response passes to graph.stream
  user_message,          \* the message of the current turn
  detected_emotions,     \* the local `emotions` of stream: the labels detected
  attempt,               \* the loop index of _call_huggingface_api
  httpLog,               \* the requests sent in this turn and how each ended
  sleeps,                \* the time.sleep calls of this turn, in seconds
  ai_response,           \* what _call_huggingface_api returned
  yielded,               \* the items stream has yielded in this turn
  result,                \* what get_ai_response returned for this turn
  calls,                 \* the functions entered in this turn
  alerts,                \* the st.error / st.warning texts shown in this turn
  raised,                \* the exception caught by stream in this turn
  chat_history,          \* st.session_state.chat_history
  conversation_started,  \* st.session_state.conversation_started
  ui_pc,                 \* where the run of the UI script is
  latest_user_message,   \* the message the running UI handler asks a reply for
  tool_name,             \* the MentalHealthTools method called last on its own
  tool_argument,         \* the argument of that call
  tool_returned          \* what that call returned

vars ==
  << config, HF_TOKEN, api_available, conversation_history, pc, stream_inputs,
     user_message,
     detected_emotions, attempt, httpLog, sleeps, ai_response, yielded, result, calls,
     alerts, raised, chat_history, conversation_started, ui_pc,
     latest_user_message, tool_name, tool_argument, tool_returned >>

globals == << config, HF_TOKEN, api_available >>

\* the session state of the UI script and the position of its current run
session == << chat_history, conversation_started, ui_pc, latest_user_message >>

\* the last direct call of a MentalHealthTools method
tools == << tool_name, tool_argument, tool_returned >>

NoResult == [response |-> "", tool |-> "", status |-> "pending"]

NoInputs == [messages |-> <<>>]

Init ==
  /\ config \in Configs
  /\ HF_TOKEN = get_hf_token(config.env, config.secret)
  /\ api_available = (HF_TOKEN # "")
  /\ conversation_history = <<>>
  /\ pc = "idle"
  /\ stream_inputs = NoInputs
  /\ user_message = ""
  /\ detected_emotions = <<>>
  /\ attempt = 0
  /\ httpLog = <<>>
  /\ sleeps = <<>>
  /\ ai_response = ""
  /\ yielded = <<>>
  /\ result = NoResult
  /\ calls = {}
  /\ alerts = <<>>
  /\ raised = NoException
  /\ chat_history = <<>>
  /\ conversation_started = FALSE
  /\ ui_pc = "idle"
  /\ latest_user_message = ""
  /\ tool_name = ""
  /\ tool_argument = <<>>
  /\ tool_returned = <<>>

\* stream yields `items`, parse_response reads them and get_ai_response returns
Yield(items) ==
  /\ yielded' = items
  /\ result' = get_ai_response_return(items)
  /\ pc' = "returned"

\* the except clause of stream: the error is shown and the fallback is yielded
StreamExcept(e) ==
  /\ raised' = e
  /\ alerts' = Append(alerts, "Processing error: " \o e)
  /\ Yield(stream_on_exception)

\* get_ai_response(message) up to the crisis check of stream
GetAiResponse(message) ==
  /\ pc = "idle"
  /\ Len(conversation_history) < MaxTurns
  /\ stream_inputs' = get_ai_response_inputs(message)
  /\ user_message' = stream_user_message(stream_inputs', conversation_history)
  /\ conversation_history' = history_append(conversation_history, user_message')
  /\ detected_emotions' = <<>>
  /\ attempt' = 0
  /\ httpLog' = <<>>
  /\ sleeps' = <<>>
  /\ ai_response' = ""
  /\ alerts' = <<>>
  /\ raised' = NoException
  /\ IF RouteTable[user_message'] = "crisis_reply"
       THEN /\ calls' = {"get_ai_response", "stream", "detect_crisis", "_handle_crisis"}
            /\ Yield(stream_on_crisis(user_message'))
       ELSE /\ calls' = {"get_ai_response", "stream", "detect_crisis"}
            /\ yielded' = <<>>
            /\ result' = NoResult
            /\ pc' = "emotion_detect"
  /\ UNCHANGED << globals, session, tools >>

\* emotions = self.tools.detect_emotions(user_message)
EmotionDetect(e) ==
  /\ pc = "emotion_detect"
  /\ calls' = calls \cup {"detect_emotions"}
  /\ IF e # NoException
       THEN /\ StreamExcept(e)
            /\ UNCHANGED detected_emotions
       ELSE /\ detected_emotions' = EmotionsTable[user_message]
            /\ pc' = "generate"
            /\ UNCHANGED << yielded, result, alerts, raised >>
  /\ UNCHANGED << globals, session, tools, conversation_history, stream_inputs,
                  user_message, attempt, httpLog,
                  sleeps, ai_response >>

\* _generate_response up to the first request of _call_huggingface_api
GenerationAttempt ==
  /\ pc = "generate"
  /\ IF api_available
       THEN /\ calls' = calls \cup {"_generate_response", "_call_huggingface_api"}
            /\ pc' = IF HF_TOKEN = "" THEN "fallback_tree" ELSE "http_attempt"
       ELSE /\ calls' = calls \cup {"_generate_response"}
            /\ pc' = "fallback_tree"
  /\ attempt' = 0
  /\ ai_response' = ""
  /\ UNCHANGED << globals, session, tools, conversation_history, stream_inputs,
                  user_message, detected_emotions, httpLog,
                  sleeps, yielded, result, alerts, raised >>

\* one iteration of the retry loop: the request is sent and the service answers
HttpAttempt ==
  /\ pc = "http_attempt"
  /\ \E o \in OutcomesTable[user_message] :
       LET step == IterationTable[user_message][o][attempt]
       IN  /\ httpLog' = Append(httpLog,
                                [status |-> o.status, exc |-> raised_in_attempt(o),
                                 accepted |-> (step.ctl = "return")])
           /\ sleeps' = IF step.sleep > 0 THEN Append(sleeps, step.sleep) ELSE sleeps
           /\ IF step.ctl = "raise"
                THEN /\ StreamExcept(raised_in_attempt(o))
                     /\ UNCHANGED << attempt, ai_response >>
                ELSE /\ alerts' = IF step.warning # "" THEN Append(alerts, step.warning)
                                  ELSE alerts
                     /\ ai_response' = step.text
                     /\ IF loops_again(step, attempt)
                          THEN /\ attempt' = attempt + 1
                               /\ pc' = "http_attempt"
                          ELSE /\ attempt' = attempt
                               /\ pc' = IF step.text # "" THEN "enhance"
                                                          ELSE "fallback_tree"
                     /\ UNCHANGED << yielded, result, raised >>
  /\ UNCHANGED << globals, session, tools, conversation_history, stream_inputs,
                  user_message, detected_emotions, calls >>

\* the AI text is enhanced and yielded
Enhance(e) ==
  /\ pc = "enhance"
  /\ calls' = calls \cup {"_enhance_response"}
               \cup (IF detected_emotions # <<>> THEN {"get_coping_strategies"} ELSE {})
  /\ IF e # NoException
       THEN StreamExcept(e)
       ELSE /\ Yield(<< GenerateTable[user_message][detected_emotions][ai_response] >>)
            /\ UNCHANGED << alerts, raised >>
  /\ UNCHANGED << globals, session, tools, conversation_history, stream_inputs,
                  user_message, detected_emotions, attempt,
                  httpLog, sleeps, ai_response >>

\* the rule-based reply is yielded
FallbackTree(e) ==
  /\ pc = "fallback_tree"
  /\ LET reply == GenerateTable[user_message][detected_emotions][ai_response]
     IN  /\ calls' = calls \cup {"_rule_based_response"}
                      \cup (IF reply.tool \in {"anxiety_support", "depression_support",
                                               "stress_management", "loneliness_support"}
                              THEN {"get_coping_strategies"} ELSE {})
         /\ IF e # NoException
              THEN StreamExcept(e)
              ELSE /\ Yield(<<reply>>)
                   /\ UNCHANGED << alerts, raised >>
  /\ UNCHANGED << globals, session, tools, conversation_history, stream_inputs,
                  user_message, detected_emotions, attempt,
                  httpLog, sleeps, ai_response >>

\* get_ai_response has returned: the caller takes the result, the locals are gone
ReturnToCaller ==
  /\ pc = "returned"
  /\ pc' = "idle"
  /\ stream_inputs' = NoInputs
  /\ user_message' = ""
  /\ detected_emotions' = <<>>
  /\ attempt' = 0
  /\ httpLog' = <<>>
  /\ sleeps' = <<>>
  /\ ai_response' = ""
  /\ yielded' = <<>>
  /\ result' = NoResult
  /\ calls' = {}
  /\ alerts' = <<>>
  /\ raised' = NoException
  /\ UNCHANGED << globals, session, tools, conversation_history >>

Next ==
  \/ \E message \in Messages : GetAiResponse(message)
  \/ \E e \in {NoException} \cup Exceptions : EmotionDetect(e)
  \/ GenerationAttempt
  \/ HttpAttempt
  \/ \E e \in {NoException} \cup Exceptions : Enhance(e)
  \/ \E e \in {NoException} \cup Exceptions : FallbackTree(e)
  \/ ReturnToCaller

Spec == Init /\ [][Next]_vars

(***************************************************************************)
(* Properties                                                              *)
(***************************************************************************)
Returned == pc = "returned"
InTurn == pc # "idle"

\* the crisis detector's verdict on each message
CrisisTable == [m \in Messages |-> detect_crisis(m)]

\* the turn was answered by the fallback tree
AnsweredByRules ==
  Returned /\ raised = NoException /\ "_rule_based_response" \in calls

CopingTexts == {strategies[e] : e \in DOMAIN strategies} \cup {GenericSelfCare}

HasCopingText(text) == \E t \in CopingTexts : Contains(text, t)

\* the fixed replies of the crisis branch and of the fallback tree over the inputs
FixedReplies ==
  {handle_crisis.response}
    \cup {RuleBasedTable[m][EmotionsTable[m]].response : m \in Messages}

CopingInReply == [t \in FixedReplies |-> HasCopingText(t)]

NoCopingIn(text) == text \in FixedReplies /\ ~CopingInReply[text]

\* C1: a message the crisis detector flags is answered with tool crisis_intervention
\* and a status other than error, whatever emotions it names and whether or not
\* generation is enabled
C1_CrisisIntervention ==
  (Returned /\ CrisisTable[user_message])
    => (result.tool = "crisis_intervention" /\ result.status # "error")

C1_Witness ==
  /\ Returned
  /\ CrisisTable[user_message]
  /\ EmotionsTable[user_message] # <<>>
  /\ api_available
  /\ result.tool = "crisis_intervention"

OtherBranches ==
  { "detect_emotions", "_generate_response", "_call_huggingface_api",
    "_enhance_response", "_rule_based_response", "get_coping_strategies" }

\* C2: in a turn whose message the crisis detector flags no other branch runs: no
\* emotion detection, no generation and no request, no fallback tree, no coping
\* advice, and the reply is the crisis reply, without coping text
C2_CrisisShortCircuits ==
  (InTurn /\ CrisisTable[user_message])
    => /\ Returned
       /\ calls \cap OtherBranches = {}
       /\ httpLog = <<>>
       /\ sleeps = <<>>
       /\ detected_emotions = <<>>
       /\ yielded = <<handle_crisis>>
       /\ NoCopingIn(result.response)

C2_Witness ==
  /\ Returned
  /\ CrisisTable[user_message]
  /\ EmotionsTable[user_message] # <<>>
  /\ api_available
  /\ "_handle_crisis" \in calls
  /\ calls \cap OtherBranches = {}

\* the replies of the outer handlers: the stream yields nothing, the item it yields
\* lacks a key, get_ai_response itself catches an exception
OuterHandlerReplies ==
  { parse_response(<<>>),
    parse_response(<< [tool |-> "empathetic_listening"] >>),
    get_ai_response_except }

\* C3: every turn returns a result, with a status of a normal return, whose response
\* is not empty, every item the stream yields carries a non-empty response, and so
\* does every reply of the outer error handlers
C3_ResponseNeverEmpty ==
  /\ Returned => (result.response # "" /\ result.status \in {"success", "error"})
  /\ \A i \in 1..Len(yielded) : yielded[i].response # ""
  /\ \A r \in OuterHandlerReplies : r.response # ""

C3_Witness ==
  /\ Returned
  /\ conversation_history[Len(conversation_history)] = <<"user", "">>
  /\ result.response # ""

\* neither source holds a credential: absent, empty or whitespace only
NoCredential == strip(config.env) = "" /\ strip(config.secret) = ""

\* C4: without a credential no request is ever sent and generation gives no text
C4_NoCredentialNoRequest ==
  NoCredential
    => /\ httpLog = <<>>
       /\ ai_response = ""
       /\ pc \notin {"http_attempt", "enhance"}
       /\ Returned => result.tool # "ai_therapy_conversation"

C4_Witness ==
  /\ Returned
  /\ config.env # ""
  /\ NoCredential
  /\ "_generate_response" \in calls
  /\ httpLog = <<>>

OtherStatus(entry) == entry.exc = "" /\ entry.status \notin {"200", "503"}

\* C5: a call sends at most 3 requests, and a response with a status other than 200
\* and 503 is the last request of its call
C5_AttemptBudget ==
  /\ Len(httpLog) <= 3
  /\ \A i \in 1..Len(httpLog) :
       OtherStatus(httpLog[i]) => (i = Len(httpLog) /\ pc # "http_attempt")

C5_Witness ==
  /\ Returned
  /\ Len(httpLog) = 3
  /\ httpLog[1].status = "503"
  /\ httpLog[2].exc = "Timeout"
  /\ OtherStatus(httpLog[3])

Unexpected(entry) == entry.exc \notin {"", "Timeout"}

\* C6 as claimed: an unexpected exception in an attempt is the end of the call, no
\* further request follows it
C6_AbandonOnException ==
  \A i \in 1..Len(httpLog) :
    Unexpected(httpLog[i]) => (i = Len(httpLog) /\ pc # "http_attempt")

\* C6: an unexpected exception in the first or second attempt is followed, after a
\* sleep, by a further request; in the third attempt it ends the call, which gives
\* no text
C6_RetryOnException ==
  \A i \in 1..Len(httpLog) :
    Unexpected(httpLog[i])
      => IF i <= 2
           THEN /\ Len(sleeps) >= 1
                /\ Len(httpLog) > i \/ pc = "http_attempt"
           ELSE /\ i = Len(httpLog)
                /\ pc # "http_attempt"
                /\ ai_response = ""

C6_Witness ==
  /\ Returned
  /\ Len(httpLog) = 3
  /\ httpLog[1].exc = "ConnectionError"
  /\ httpLog[2].exc = "ValueError"
  /\ httpLog[3].exc = "ConnectionError"
  /\ ai_response = ""

Rejected200(entry) == entry.status = "200" /\ entry.exc = "" /\ ~entry.accepted

\* C7: a 200 response whose payload gives no acceptable text is the last request of
\* its call
C7_NoRetryAfterRejectedPayload ==
  \A i \in 1..Len(httpLog) :
    Rejected200(httpLog[i]) => (i = Len(httpLog) /\ pc # "http_attempt")

\* C8: an exception raised in emotion detection, generation or the fallback tree ends
\* the turn with the technical fallback, returned as a normal result
C8_TechnicalFallback ==
  raised # NoException
    => /\ Returned
       /\ yielded = <<fallback_response>>
       /\ result.tool = "technical_fallback"
       /\ result.response = fallback_response.response
       /\ result.status = "success"

C8_Witness ==
  /\ Returned
  /\ raised \in Exceptions
  /\ "_rule_based_response" \in calls
  /\ Len(httpLog) = 3
  /\ result.tool = "technical_fallback"

\* the rule-based path answered because there is no credential or because every
\* request of the call failed
DegradedTurn ==
  /\ AnsweredByRules
  /\ \/ HF_TOKEN = ""
     \/ httpLog # <<>> /\ \A i \in 1..Len(httpLog) : ~httpLog[i].accepted

\* C9 as claimed: a degraded turn is reported with status degraded
C9_DegradedStatus == DegradedTurn => result.status = "degraded"

\* C9: a degraded turn is reported with status success, like every other turn
C9_DegradedReportedAsSuccess == DegradedTurn => result.status = "success"

C9_Witness ==
  /\ DegradedTurn
  /\ HF_TOKEN # ""
  /\ Len(httpLog) = 3
  /\ result.status = "success"

CategoryOrder ==
  << "greeting", "anxiety", "depression", "stress", "loneliness", "gratitude",
     "check_in", "default" >>

CategoryMatches(c, message, labels) ==
  LET t == lower(message)
  IN  CASE c = "greeting" -> AnyIn(greetings, t)
        [] c = "anxiety" -> InList("anxiety", labels) \/ AnyIn(AnxietyWords, t)
        [] c = "depression" -> InList("depression", labels) \/ AnyIn(DepressionWords, t)
        [] c = "stress" -> InList("stress", labels) \/ AnyIn(StressWords, t)
        [] c = "loneliness" -> InList("loneliness", labels) \/ AnyIn(LonelinessWords, t)
        [] c = "gratitude" -> AnyIn(GratitudeWords, t)
        [] c = "check_in" -> AnyIn(CheckInPhrases, t)
        [] c = "default" -> TRUE

CategoryReply(c, labels) ==
  CASE c = "greeting" -> GreetingReply
    [] c = "anxiety" -> AnxietyReply
    [] c = "depression" -> DepressionReply
    [] c = "stress" -> StressReply
    [] c = "loneliness" -> LonelinessReply
    [] c = "gratitude" -> GratitudeReply
    [] c = "check_in" -> CheckInReply
    [] c = "default" -> DefaultReply(labels)

\* the earliest category of the order that the message matches
FirstCategory(message, labels) ==
  CategoryOrder[CHOOSE i \in 1..Len(CategoryOrder) :
                  /\ CategoryMatches(CategoryOrder[i], message, labels)
                  /\ \A j \in 1..(i - 1) :
                       ~CategoryMatches(CategoryOrder[j], message, labels)]

FirstCategoryTable ==
  [m \in Messages |-> FirstCategory(m, EmotionsTable[m])]

\* the reply of the earliest matching category, for each message
FirstCategoryReply ==
  [m \in Messages |->
               CategoryReply(FirstCategoryTable[m], EmotionsTable[m])]

\* C10: on the fallback path the reply, text and tag, is that of the earliest category
\* in the order greeting, anxiety, depression, stress, loneliness, gratitude, check-in,
\* default that the message matches; a greeting match gives no coping text
C10_FirstCategoryWins ==
  AnsweredByRules
    => /\ detected_emotions = EmotionsTable[user_message]
       /\ result.tool = FirstCategoryReply[user_message].tool
       /\ result.response = FirstCategoryReply[user_message].response
       /\ FirstCategoryTable[user_message] = "greeting"
            => (result.tool = "warm_greeting" /\ NoCopingIn(result.response))

C10_Witness ==
  /\ AnsweredByRules
  /\ detected_emotions # <<>>
  /\ FirstCategoryTable[user_message] = "greeting"
  /\ result.tool = "warm_greeting"

\* the turn was answered with the enhanced completion of the external service
AnsweredByAI ==
  Returned /\ raised = NoException /\ "_enhance_response" \in calls

StartsWith(text, prefix) ==
  Len(text) >= Len(prefix) /\ SubSeq(text, 1, Len(prefix)) = prefix

\* what follows the completion in the reply
Addendum == SubSeq(result.response, Len(ai_response) + 1, Len(result.response))

AddendumOpening == "\n\n[bulb] **For "

\* the accepted texts with the replies enhance_response makes of them
EnhancedPairs ==
  UNION {{<< t, GenerateTable[m][EmotionsTable[m]][t].response >> :
            t \in ApiTextsTable[m] \ {""}} : m \in Messages}

\* the labels whose technique text stands in the part of the reply after the text
StrategiesInAddendum ==
  [p \in EnhancedPairs |->
     {label \in DOMAIN strategies :
        Contains(SubSeq(p[2], Len(p[1]) + 1, Len(p[2])), strategies[label])}]

\* C11: a turn answered from a non-empty completion has tool ai_therapy_conversation;
\* with no label detected the response is the completion unchanged, and with labels
\* detected it is the completion followed by a delimited addendum that holds the
\* coping text of every detected label and of no other label
C11_EnhancedCompletion ==
  AnsweredByAI
    => /\ ai_response # ""
       /\ result.tool = "ai_therapy_conversation"
       /\ StartsWith(result.response, ai_response)
       /\ IF detected_emotions = <<>>
            THEN result.response = ai_response
            ELSE /\ StartsWith(Addendum, AddendumOpening)
                 /\ << ai_response, result.response >> \in EnhancedPairs
                 /\ StrategiesInAddendum[<< ai_response, result.response >>]
                      = {detected_emotions[i] : i \in 1..Len(detected_emotions)}

C11_Witness ==
  /\ AnsweredByAI
  /\ Len(detected_emotions) >= 2
  /\ Len(httpLog) = 3
  /\ result.tool = "ai_therapy_conversation"
  /\ Len(result.response) > Len(ai_response)

\* the fallback tree's result for each message, as with generation disabled
TreeResult == [m \in Messages |-> rule_based_response(m, detect_emotions(m))]

\* generation gave no text in this turn, which has returned
GenerationEmpty ==
  /\ Returned
  /\ raised = NoException
  /\ ~CrisisTable[user_message]
  /\ ai_response = ""

\* C12: when generation gives no text on a non-crisis turn the result, tool and
\* response, is the fallback tree's result for the message, whatever the requests
\* sent and however they failed, and the same as without a credential
C12_EmptyGenerationIsFallbackTree ==
  GenerationEmpty
    => /\ result.tool = TreeResult[user_message].tool
       /\ result.response = TreeResult[user_message].response
       /\ result.status = "success"

C12_Witness ==
  /\ GenerationEmpty
  /\ Len(httpLog) = 3
  /\ httpLog[1].status = "503"
  /\ httpLog[2].exc = "Timeout"
  /\ Rejected200(httpLog[3])
  /\ detected_emotions # <<>>
  /\ result.tool = "empathetic_listening"

ThanksTurn ==
  Returned /\ raised = NoException /\ user_message = "thanks so much"

\* C13 as claimed: "thanks so much" gets the gratitude tag, with or without external
\* generation and whatever the service returns
C13_GratitudeTagAlways == ThanksTurn => result.tool = "gratitude_response"

\* C13: "thanks so much" matches no crisis pattern and no emotion keyword; it gets the
\* gratitude tag when generation is disabled or gives no text, and the tag
\* ai_therapy_conversation when generation gives a completion
C13_GratitudeTagWithoutCompletion ==
  ThanksTurn
    => /\ ~CrisisTable[user_message]
       /\ detected_emotions = <<>>
       /\ result.tool = IF ai_response = "" THEN "gratitude_response"
                        ELSE "ai_therapy_conversation"

C13_Witness ==
  /\ ThanksTurn
  /\ api_available
  /\ Len(httpLog) = 1
  /\ OtherStatus(httpLog[1])
  /\ result.tool = "gratitude_response"

EmotionCategories == {"anxiety", "depression", "stress", "loneliness"}

EmotionTool ==
  [anxiety |-> "anxiety_support", depression |-> "depression_support",
   stress |-> "stress_management", loneliness |-> "loneliness_support"]

\* the labels whose coping text a fixed reply holds
StrategiesIn ==
  [t \in FixedReplies |-> {label \in DOMAIN strategies : Contains(t, strategies[label])}]

\* C14: with generation disabled, a non-crisis message whose first matching category
\* is one of anxiety, depression, stress, loneliness gets that category's tag and a
\* response that holds that emotion's coping text and no other emotion's, however
\* many labels were detected
C14_EmotionReplyOwnCopingText ==
  (AnsweredByRules /\ ~api_available
     /\ FirstCategoryTable[user_message] \in EmotionCategories)
    => /\ result.tool = EmotionTool[FirstCategoryTable[user_message]]
       /\ result.response \in FixedReplies
       /\ StrategiesIn[result.response] = {FirstCategoryTable[user_message]}

C14_Witness ==
  /\ AnsweredByRules
  /\ ~api_available
  /\ Len(detected_emotions) >= 3
  /\ FirstCategoryTable[user_message] = "depression"
  /\ result.tool = "depression_support"

\* the yield statement of stream that ended the turn
TerminalReached(kind) ==
  CASE kind = "CrisisReply" -> "_handle_crisis" \in calls
    [] kind = "Enhance" -> "_generate_response" \in calls /\ raised = NoException
    [] kind = "TechnicalFallback" -> raised # NoException

Terminals == {"CrisisReply", "Enhance", "TechnicalFallback"}

\* C15: a turn that has returned has yielded exactly one item, which is the result
\* (parse_response did not meet an exhausted stream), from exactly one of the
\* terminal states; a turn still running has yielded nothing
C15_ExactlyOneResult ==
  /\ Returned
       => /\ Len(yielded) = 1
          /\ result.tool = yielded[1].tool
          /\ result.response = yielded[1].response
          /\ result.tool # parse_response(<<>>).tool
          /\ Cardinality({kind \in Terminals : TerminalReached(kind)}) = 1
  /\ ~Returned => (yielded = <<>> /\ result = NoResult)

C15_Witness ==
  /\ Returned
  /\ TerminalReached("TechnicalFallback")
  /\ "_enhance_response" \in calls
  /\ Len(yielded) = 1
  /\ Len(conversation_history) = 2

\* the message the caller passed to get_ai_response in this turn
CallerMessage == stream_inputs.messages[2][2]

\* the result as a function of the message, the text the service outcomes gave and
\* whether a step raised, with no history in it
ExpectedResult(message, api_text, fault) ==
  IF detect_crisis(message) THEN get_ai_response_return(<< handle_crisis >>)
  ELSE IF fault THEN get_ai_response_return(<< fallback_response >>)
  ELSE get_ai_response_return(
         << generate_response(api_text, message, detect_emotions(message)) >>)

ExpectedTable ==
  [m \in Messages |->
     [t \in ApiTextsTable[m] |->
        [f \in BOOLEAN |-> ExpectedResult(m, t, f)]]]

\* C16: whatever the earlier turns were, the result of a turn (tool, response and
\* status) is the one its message, the service outcomes and the fault alone give
C16_ResultIndependentOfHistory ==
  Returned
    => /\ user_message = CallerMessage
       /\ result = ExpectedTable[CallerMessage][ai_response][raised # NoException]

C16_Witness ==
  /\ Returned
  /\ Len(conversation_history) = 2
  /\ conversation_history[1][2] # CallerMessage
  /\ CrisisTable[conversation_history[1][2]]
  /\ result.tool = "ai_therapy_conversation"

\* the fields of the EnhancedGraph object other than its history, and the credential
ConfigurationUnchanged ==
  /\ api_available' = api_available
  /\ HF_TOKEN' = HF_TOKEN
  /\ config' = config

\* C17 as claimed: no step of a turn changes a field of the shared EnhancedGraph object
C17_NoFieldWritten ==
  [][ConfigurationUnchanged /\ conversation_history' = conversation_history]_vars

\* C17: the configuration is never written after initialization, and the object's
\* conversation_history is mutable state: each turn appends one entry, the caller's
\* message, when it starts, and no step changes or removes an earlier entry
C17_OnlyHistoryGrows ==
  [][/\ ConfigurationUnchanged
     /\ IF pc = "idle"
          THEN conversation_history'
                 = Append(conversation_history, <<"user", CallerMessage'>>)
          ELSE conversation_history' = conversation_history]_vars

C17_Witness ==
  /\ Returned
  /\ Len(conversation_history) = 2
  /\ conversation_history[1][2] = "hello"
  /\ conversation_history[2] = <<"user", CallerMessage>>
  /\ api_available

(***************************************************************************)
(* The UI script.  Streamlit runs the script from top to bottom once per   *)
(* interaction; st.session_state outlives the runs, the graph object of    *)
(* line 397 is built anew by each of them.  A run that handles a message   *)
(* appends the user entry, calls get_ai_response and appends the reply;    *)
(* the reply get_ai_response can give for a message is the one the         *)
(* pipeline above gives it (ExpectedResult), or the one of its own except  *)
(* clause.  Characters outside ASCII are written as tags, as above, e.g.   *)
(* [hospital], [runner], [brain], [green heart].                           *)
(***************************************************************************)
MaxEntries == 4

\* user_input of the eight quick-start buttons
quick_start_input ==
  [
    Anxious |-> "I'm feeling really anxious and worried about everything. My mind won't stop racing.",
    Sad |-> "I'm feeling really sad and down lately. Everything feels heavy and difficult.",
    Stressed |-> "I'm feeling completely overwhelmed and stressed out. There's so much pressure.",
    Lonely |-> "I'm feeling really lonely and disconnected from everyone around me.",
    Angry |-> "I'm feeling really angry and frustrated. I can't seem to control these feelings.",
    Confused |-> "I'm feeling confused and lost. I don't know what to do or which direction to go.",
    Grieving |-> "I'm grieving and dealing with a significant loss. The pain feels unbearable.",
    Crisis |-> "I'm in crisis and need immediate support. I don't know how to cope." ]

NoInput == ""

\* what st.chat_input returns in a run: a submitted text, or nothing
ChatInputs == {"I feel lonely", "I want to kill myself", NoInput}

UIMessages == {quick_start_input[b] : b \in DOMAIN quick_start_input} \cup ChatInputs

\* datetime.now().strftime("%H:%M")
Clock == {"09:41", "09:42"}

resources_content ==
  "[hospital] **Comprehensive Mental Health Resources**\n\n**[SOS] Crisis Support (India):**\n* AASRA: 9152987821 (24/7, suicide prevention)\n* Vandrevala Foundation: 1860-266-2345 (24/7, free counseling)\n* Kiran Mental Health: 1800-599-0019\n* Connecting NGO: +91 9820466726 (WhatsApp)\n* Sumaitri: 011 23389090 (Delhi)\n\n**[globe] International Crisis Support:**\n* US Suicide Prevention: 988\n* UK Samaritans: 116 123\n* Crisis Text Line: Text HOME to 741741\n* Australia Lifeline: 13 11 14\n\n**[stethoscope] Professional Help:**\n* Psychology Today India: psychologyindia.com\n* BetterHelp: betterhelp.com (online therapy)\n* Talkspace: talkspace.com (online therapy)\n* Local mental health professionals in your area\n\n**[mobile phone] Mental Health Apps:**\n* Headspace (meditation)\n* Calm (sleep & relaxation)  \n* Insight Timer (free meditation)\n* Youper (mood tracking & AI support)\n* Sanvello (anxiety & depression)\n* MindShift (anxiety management)\n\n**[books] Educational Resources:**\n* National Alliance on Mental Illness (NAMI)\n* Mental Health America\n* WHO Mental Health Resources\n* Local mental health organizations\n\nRemember: Professional help is always available when you need it. You deserve support and care. [blue heart]"

selfcare_content ==
  "[seedling] **Self-Care Toolkit**\n\n**[runner] Physical Self-Care:**\n* Take a 10-minute walk in fresh air\n* Do gentle stretching or yoga\n* Take a warm shower or bath\n* Practice deep breathing exercises\n* Get adequate sleep (7-9 hours)\n* Stay hydrated throughout the day\n\n**[brain] Emotional Self-Care:**\n* Write in a journal for 5 minutes\n* Practice gratitude - list 3 good things\n* Allow yourself to feel emotions without judgment\n* Reach out to a trusted friend or family member\n* Practice positive self-talk\n* Set healthy boundaries\n\n**[artist palette] Creative Self-Care:**\n* Listen to music that lifts your mood\n* Draw, paint, or do crafts\n* Write poetry or stories\n* Dance like nobody's watching\n* Sing your favorite songs\n* Try photography\n\n**[person in lotus position] Mental Self-Care:**\n* Practice mindfulness or meditation\n* Read a book you enjoy\n* Learn something new\n* Do a puzzle or brain game\n* Limit news and social media\n* Practice the 5-4-3-2-1 grounding technique\n\n**[handshake] Social Self-Care:**\n* Connect with supportive people\n* Join online communities with shared interests\n* Volunteer for a cause you care about\n* Practice saying no to draining activities\n* Seek professional help when needed\n* Express your needs clearly\n\n**[house building] Environmental Self-Care:**\n* Clean and organize your space\n* Spend time in nature\n* Create a cozy, comfortable environment\n* Use aromatherapy or candles\n* Keep plants or flowers nearby\n* Minimize clutter\n\nRemember: Self-care isn't selfish - it's necessary. Start small and be gentle with yourself. [green heart]"

mindfulness_content ==
  "[person in lotus position] **Mindfulness & Grounding Exercises**\n\n**[lungs] Breathing Techniques:**\n\n*4-7-8 Breathing:*\n1. Inhale through nose for 4 counts\n2. Hold breath for 7 counts\n3. Exhale through mouth for 8 counts\n4. Repeat 3-4 times\n\n*Box Breathing:*\n1. Inhale for 4 counts\n2. Hold for 4 counts  \n3. Exhale for 4 counts\n4. Hold empty for 4 counts\n5. Repeat 5-10 times\n\n**[star] 5-4-3-2-1 Grounding Technique:**\n* Name 5 things you can see\n* Name 4 things you can hear\n* Name 3 things you can touch\n* Name 2 things you can smell\n* Name 1 thing you can taste\n\n**[direct hit] Progressive Muscle Relaxation:**\n1. Start with your toes - tense for 5 seconds, then relax\n2. Move up through each muscle group\n3. Notice the difference between tension and relaxation\n4. End with your face and scalp\n\n**[leaf fluttering in wind] Mindful Observation:**\n* Pick an object and observe it for 2 minutes\n* Notice colors, textures, shapes, details\n* If your mind wanders, gently return focus\n* This helps anchor you in the present moment\n\n**[pedestrian] Walking Meditation:**\n* Take slow, deliberate steps\n* Feel your feet touching the ground\n* Notice your surroundings without judgment\n* Focus on the rhythm of walking\n\n**[thought balloon] Thought Labeling:**\n* When anxious thoughts arise, label them: \"I'm having the thought that...\"\n* This creates distance between you and the thought\n* Thoughts are temporary visitors, not facts\n\nPractice these daily, even for just 2-3 minutes. Regular practice builds your mindfulness muscle! [seedling]"

toolkit_content ==
  [comprehensive_resources |-> resources_content,
   self_care_toolkit |-> selfcare_content,
   mindfulness_exercises |-> mindfulness_content]

user_entry(text) == [role |-> "user", content |-> text]

assistant_entry(reply, now) ==
  [role |-> "assistant", content |-> reply.response, tool |-> reply.tool,
   timestamp |-> now, status |-> reply.status]

toolkit_entry(kind, now) ==
  [role |-> "assistant", content |-> toolkit_content[kind], tool |-> kind,
   timestamp |-> now]

log_append_over_last(log, entry) ==
  IF log = <<>> THEN << entry >> ELSE [log EXCEPT ![Len(log)] = entry]

\* st.session_state.chat_history.append(entry)
log_append(log, entry) == Append(log, entry)

\* the condition under which the chat-input branch processes a turn
processing_guard(text, log, started) ==
  text # NoInput \/ (log # <<>> /\ ~started)

\* the texts _call_huggingface_api can return for a message of the UI
UIApiTexts(message, credential) ==
  IF credential
    THEN {""} \cup {accepted_text([json |-> "list", items |-> << g >>], Prompt(message)) :
                      g \in GeneratedTexts(Prompt(message))}
    ELSE {""}

\* what get_ai_response can return for a message
UIResultTable ==
  [m \in UIMessages |->
     [credential \in BOOLEAN |->
        {get_ai_response_except} \cup
        {ExpectedResult(m, t, f) : t \in UIApiTexts(m, credential), f \in BOOLEAN}]]

pipeline ==
  << conversation_history, pc, stream_inputs, user_message, detected_emotions,
     attempt, httpLog, sleeps, ai_response, yielded, result, calls, alerts, raised >>

\* a quick-start button is pressed: the user entry is appended (the buttons are
\* drawn only while the log is empty)
QuickStart(button) ==
  /\ ui_pc = "idle"
  /\ chat_history = <<>>
  /\ Len(chat_history) + 2 <= MaxEntries
  /\ chat_history' = log_append(chat_history, user_entry(quick_start_input[button]))
  /\ conversation_started' = TRUE
  /\ latest_user_message' = quick_start_input[button]
  /\ ui_pc' = "quick_start"
  /\ UNCHANGED << globals, pipeline, tools >>

\* the chat-input branch up to the call of get_ai_response
ChatInput(text) ==
  /\ ui_pc = "idle"
  /\ processing_guard(text, chat_history, conversation_started)
  /\ Len(chat_history) + 2 <= MaxEntries
  /\ chat_history' = IF text # NoInput THEN log_append(chat_history, user_entry(text))
                                       ELSE chat_history
  /\ conversation_started' = TRUE
  /\ latest_user_message' = chat_history'[Len(chat_history')].content
  /\ ui_pc' = "chat_input"
  /\ UNCHANGED << globals, pipeline, tools >>

\* a handler that appends nothing when get_ai_response reports an error
Respond_drops_error(reply, now) ==
  /\ ui_pc \in {"quick_start", "chat_input"}
  /\ reply \in UIResultTable[latest_user_message][HF_TOKEN # ""]
  /\ chat_history' = IF reply.status = "error" THEN chat_history
                     ELSE log_append(chat_history, assistant_entry(reply, now))
  /\ latest_user_message' = ""
  /\ ui_pc' = "idle"
  /\ UNCHANGED << globals, pipeline, tools, conversation_started >>

\* get_ai_response has returned: the reply is appended and the script reruns
Respond(reply, now) ==
  /\ ui_pc \in {"quick_start", "chat_input"}
  /\ reply \in UIResultTable[latest_user_message][HF_TOKEN # ""]
  /\ chat_history' = log_append(chat_history, assistant_entry(reply, now))
  /\ latest_user_message' = ""
  /\ ui_pc' = "idle"
  /\ UNCHANGED << globals, pipeline, tools, conversation_started >>

\* a Fresh Start that resets the flag and keeps the log
FreshStart_keeps_log ==
  /\ ui_pc = "idle"
  /\ chat_history # <<>>
  /\ conversation_started' = FALSE
  /\ UNCHANGED << globals, pipeline, tools, chat_history, ui_pc, latest_user_message >>

\* the Fresh Start button (drawn only while the log is not empty)
FreshStart ==
  /\ ui_pc = "idle"
  /\ chat_history # <<>>
  /\ chat_history' = <<>>
  /\ conversation_started' = FALSE
  /\ UNCHANGED << globals, pipeline, tools, ui_pc, latest_user_message >>

\* the Resources button (drawn only while the log is not empty)
Resources(now) ==
  /\ ui_pc = "idle"
  /\ chat_history # <<>>
  /\ Len(chat_history) < MaxEntries
  /\ chat_history' = log_append(chat_history, toolkit_entry("comprehensive_resources", now))
  /\ UNCHANGED << globals, pipeline, tools, conversation_started, ui_pc, latest_user_message >>

\* the Self-Care button (drawn only while the log is not empty)
SelfCare(now) ==
  /\ ui_pc = "idle"
  /\ chat_history # <<>>
  /\ Len(chat_history) < MaxEntries
  /\ chat_history' = log_append(chat_history, toolkit_entry("self_care_toolkit", now))
  /\ UNCHANGED << globals, pipeline, tools, conversation_started, ui_pc, latest_user_message >>

\* the Mindfulness button (drawn only while the log is not empty)
Mindfulness(now) ==
  /\ ui_pc = "idle"
  /\ chat_history # <<>>
  /\ Len(chat_history) < MaxEntries
  /\ chat_history' = log_append(chat_history, toolkit_entry("mindfulness_exercises", now))
  /\ UNCHANGED << globals, pipeline, tools, conversation_started, ui_pc, latest_user_message >>

NextUI ==
  \/ \E button \in DOMAIN quick_start_input : QuickStart(button)
  \/ \E text \in ChatInputs : ChatInput(text)
  \/ \E reply \in UNION {UIResultTable[m][c] : m \in UIMessages, c \in BOOLEAN},
        now \in Clock : Respond(reply, now)
  \/ FreshStart
  \/ \E now \in Clock : Resources(now)
  \/ \E now \in Clock : SelfCare(now)
  \/ \E now \in Clock : Mindfulness(now)

SpecUI == Init /\ [][NextUI]_vars

\* the log grew by exactly one entry at its end
OneEntryAppended ==
  /\ Len(chat_history') = Len(chat_history) + 1
  /\ SubSeq(chat_history', 1, Len(chat_history)) = chat_history

\* C18: every UI action leaves chat_history as it is, appends one entry at its end,
\* or is Fresh Start replacing the whole log with the empty one; no entry is
\* modified, reordered or removed on its own
C18_LogAppendOnly ==
  [][chat_history' = chat_history \/ OneEntryAppended \/ (FreshStart /\ chat_history' = <<>>)]_vars

\* a log holding a user entry, its reply and two toolkit entries
C18_Witness ==
  /\ ui_pc = "idle"
  /\ Len(chat_history) = 4
  /\ chat_history[1].role = "user"
  /\ chat_history[2].tool = "stress_management"
  /\ chat_history[3].role = "assistant"
  /\ chat_history[3].tool = "self_care_toolkit"
  /\ chat_history[4].tool = "mindfulness_exercises"

\* what the page shows the user for the turn: the reply and the st.error /
\* st.warning boxes
UserVisible == {result.response} \cup {alerts[i] : i \in 1..Len(alerts)}

\* C19: on an internal fault the user sees the generic technical-fallback message
\* and the text of the caught exception is in no user-visible output of the turn
C19_ExceptionTextNeverShown ==
  Returned /\ raised # NoException
    => /\ result.response = fallback_response.response
       /\ \A shown \in UserVisible : ~Contains(shown, raised)

\* the exceptions a request to the service can end in
ServiceExceptions ==
  UNION {{raised_in_attempt(o) : o \in OutcomesTable[m]} : m \in Messages} \ {""}

\* _call_huggingface_api was entered in this turn and has come to its end
CallOver == "_call_huggingface_api" \in calls /\ pc # "http_attempt"

\* C20: whatever the service outcomes of the call were, _call_huggingface_api raises
\* none of them to its caller and returns the empty string or a text accepted from
\* a 200 answer
C20_GenerateNeverRaises ==
  /\ raised \notin ServiceExceptions
  /\ CallOver
       => \/ ai_response = ""
          \/ /\ Len(ai_response) > MinTextLen
             /\ httpLog[Len(httpLog)].status = "200"
             /\ httpLog[Len(httpLog)].accepted

\* three requests that ended in three different exceptions, and the empty string
\* handed to the fallback tree
C20_Witness ==
  /\ pc = "fallback_tree"
  /\ CallOver
  /\ ai_response = ""
  /\ Len(httpLog) = retries + 1
  /\ {httpLog[i].exc : i \in 1..Len(httpLog)} = {"ConnectionError", "ValueError", "AttributeError"}

(***************************************************************************)
(* Termination of a turn.  A call of get_ai_response that has started      *)
(* keeps running: every step of it is a statement of one Python thread,    *)
(* requests.post carries timeout=15 and the sleeps are of 3 s and 1 s, so  *)
(* a step that can be taken is taken.  Nothing obliges a caller to start   *)
(* a turn.                                                                 *)
(***************************************************************************)
TurnStep ==
  \/ \E e \in {NoException} \cup Exceptions : EmotionDetect(e)
  \/ GenerationAttempt
  \/ HttpAttempt
  \/ \E e \in {NoException} \cup Exceptions : Enhance(e)
  \/ \E e \in {NoException} \cup Exceptions : FallbackTree(e)

\* the turns followed to their end
MaxLiveTurns == 1

NextLive ==
  \/ \E message \in Messages :
       Len(conversation_history) < MaxLiveTurns /\ GetAiResponse(message)
  \/ TurnStep
  \/ ReturnToCaller

SpecLive == Init /\ [][NextLive]_vars /\ WF_vars(TurnStep)

\* the steps a turn at this point can still take before it returns, at most
StepsLeft ==
  CASE pc = "emotion_detect" -> retries + 4
    [] pc = "generate" -> retries + 3
    [] pc = "http_attempt" -> retries + 2 - attempt
    [] pc \in {"enhance", "fallback_tree"} -> 1
    [] OTHER -> 0

Running == pc \notin {"idle", "returned"}

\* C21: a turn that has started reaches a terminal state and returns, under every
\* sequence of service outcomes: each step of it leaves fewer steps to take, the
\* loop index never passes the retry budget, and the turn does return
C21_TurnTerminates ==
  /\ [][Running => StepsLeft' < StepsLeft]_vars
  /\ [](attempt <= retries /\ Len(httpLog) <= retries + 1)
  /\ (Running ~> Returned)

\* the longest turn: three requests, each answered 503 or timed out, then the
\* fallback tree
C21_Witness ==
  /\ Returned
  /\ Len(httpLog) = retries + 1
  /\ Len(sleeps) = retries
  /\ \A i \in 1..Len(httpLog) : ~httpLog[i].accepted
  /\ "_rule_based_response" \in calls

(***************************************************************************)
(* The two static methods of MentalHealthTools called on their own, with   *)
(* texts and label lists of the caller's choice                            *)
(***************************************************************************)
MaxLabels == 2

\* "joy" is a label the catalog does not hold
Labels == {EmotionCatalog[i] : i \in 1..Len(EmotionCatalog)} \cup {"joy"}

LabelLists == UNION {[1..n -> Labels] : n \in 0..MaxLabels}

ToolMessages ==
  Messages \cup
  { "I am lonely and anxious",
    "LOST, then SAD, then Worried and scared",
    "grieving a loss; stressed, exhausted and mad" }

\* what each call returns
DetectEmotionsTable == [m \in ToolMessages |-> detect_emotions(m)]

GetCopingStrategiesTable == [es \in LabelLists |-> get_coping_strategies(es)]

DetectEmotions(message) ==
  /\ tool_name' = "detect_emotions"
  /\ tool_argument' = message
  /\ tool_returned' = DetectEmotionsTable[message]
  /\ UNCHANGED << globals, pipeline, session >>

GetCopingStrategies(emotions) ==
  /\ tool_name' = "get_coping_strategies"
  /\ tool_argument' = emotions
  /\ tool_returned' = GetCopingStrategiesTable[emotions]
  /\ UNCHANGED << globals, pipeline, session >>

NextTools ==
  \/ \E message \in ToolMessages : DetectEmotions(message)
  \/ \E emotions \in LabelLists : GetCopingStrategies(emotions)

SpecTools == Init /\ [][NextTools]_vars

Advised == tool_name = "get_coping_strategies"

\* the labels of the argument that the catalog holds, in the order given
KnownLabels == SelectSeq(tool_argument, LAMBDA label : label \in DOMAIN strategies)

\* C22: get_coping_strategies returns the generic self-care sentence for the empty
\* list, and for a non-empty list of catalog labels a non-empty string that contains
\* the technique text of every label in it
C22_AdviceCoversEveryLabel ==
  Advised
    => /\ tool_argument = <<>> => tool_returned = GenericSelfCare
       /\ (tool_argument # <<>> /\ KnownLabels = tool_argument)
            => /\ tool_returned # ""
               /\ \A i \in 1..Len(tool_argument) :
                    Contains(tool_returned, strategies[tool_argument[i]])

C22_Witness ==
  /\ Advised
  /\ tool_argument = << "grief", "anxiety" >>
  /\ Contains(tool_returned, strategies["grief"])
  /\ Contains(tool_returned, strategies["anxiety"])

\* where the technique of the i-th known label starts in the advice: the techniques
\* before it, each followed by one space
RECURSIVE TechniqueStart(_, _)
TechniqueStart(known, i) ==
  IF i = 1 THEN 1
  ELSE TechniqueStart(known, i - 1) + Len(strategies[known[i - 1]]) + 1

\* the labels of the argument that the catalog holds, each once, in catalog order
CatalogOrdered ==
  SelectSeq(EmotionCatalog,
            LAMBDA label : \E i \in 1..Len(tool_argument) : tool_argument[i] = label)

\* C23 as claimed: for a non-empty list the advice is the techniques of its catalog
\* labels joined by a space in catalog order, whatever order they were given in
C23_CatalogOrderWhateverInput ==
  (Advised /\ tool_argument # <<>>)
    => tool_returned
         = join(" ", [i \in 1..Len(CatalogOrdered) |-> strategies[CatalogOrdered[i]]])

\* C23: for a non-empty list the advice is the techniques of its catalog labels in the
\* order the labels were given, one per occurrence, with one space between two of them
\* and nothing else; labels outside the catalog are skipped
C23_InputOrder ==
  (Advised /\ tool_argument # <<>>)
    => IF KnownLabels = <<>> THEN tool_returned = ""
       ELSE /\ Len(tool_returned)
                 = TechniqueStart(KnownLabels, Len(KnownLabels))
                     + Len(strategies[KnownLabels[Len(KnownLabels)]]) - 1
            /\ \A i \in 1..Len(KnownLabels) :
                 /\ SubSeq(tool_returned, TechniqueStart(KnownLabels, i),
                           TechniqueStart(KnownLabels, i)
                             + Len(strategies[KnownLabels[i]]) - 1)
                      = strategies[KnownLabels[i]]
                 /\ i > 1 => SubSeq(tool_returned, TechniqueStart(KnownLabels, i) - 1,
                                    TechniqueStart(KnownLabels, i) - 1) = " "

\* labels given against the catalog order: the stress technique comes first
C23_Witness ==
  /\ Advised
  /\ tool_argument = << "stress", "anxiety" >>
  /\ tool_returned = strategies["stress"] \o " " \o strategies["anxiety"]

Classified == tool_name = "detect_emotions"

\* the place of a label in the catalog
CatalogIndex(label) == CHOOSE i \in 1..Len(EmotionCatalog) : EmotionCatalog[i] = label

\* C24: detect_emotions changes no state, gives the same labels when it is called
\* again on the same text, and lists its labels in catalog order, each at most once
C24_ClassifierPureCatalogOrder ==
  /\ [](Classified
          => /\ \A i \in 1..Len(tool_returned) : InList(tool_returned[i], EmotionCatalog)
             /\ \A i, j \in 1..Len(tool_returned) :
                  i < j => CatalogIndex(tool_returned[i]) < CatalogIndex(tool_returned[j]))
  /\ [][Classified'
          => /\ UNCHANGED << globals, pipeline, session >>
             /\ (Classified /\ tool_argument' = tool_argument)
                  => tool_returned' = tool_returned]_vars

\* a text that names loneliness before anxiety
C24_Witness ==
  /\ Classified
  /\ tool_argument = "I am lonely and anxious"
  /\ tool_returned = << "anxiety", "loneliness" >>

\* the generated text of the first element of a list payload, with the echoed prompt
\* removed and trimmed
Cleaned(o, prompt) == strip(replace(strip(o.body.items[1]), prompt, ""))

\* a 200 answer with a non-empty list payload whose cleaned text is long enough
Acceptable(o, prompt) ==
  /\ o.exc = ""
  /\ o.status = "200"
  /\ o.body.json = "list"
  /\ Len(o.body.items) > 0
  /\ Len(Cleaned(o, prompt)) > MinTextLen

\* an iteration returns a text exactly on an acceptable answer, and the text is the
\* cleaned one
AcceptanceRule ==
  \A m \in Messages :
    \A o \in OutcomesTable[m] :
      \A n \in 0..retries :
        IF Acceptable(o, Prompt(m))
          THEN /\ IterationTable[m][o][n].ctl = "return"
               /\ IterationTable[m][o][n].text = Cleaned(o, Prompt(m))
          ELSE /\ IterationTable[m][o][n].ctl # "return"
               /\ IterationTable[m][o][n].text = ""

\* C25: _call_huggingface_api returns a non-empty text only from an attempt that got
\* HTTP 200 with a non-empty list whose first generated text, with the prompt removed
\* and trimmed, is longer than MinTextLen; the text returned is that cleaned text, and
\* the attempt is the first such attempt of the call and its last request
C25_TextFromFirstAcceptableAnswer ==
  /\ AcceptanceRule
  /\ ai_response # ""
       => /\ httpLog # <<>>
          /\ httpLog[Len(httpLog)].accepted
          /\ httpLog[Len(httpLog)].status = "200"
          /\ Len(ai_response) > MinTextLen
  /\ \A i \in 1..Len(httpLog) :
       httpLog[i].accepted
         => (i = Len(httpLog) /\ ai_response # "" /\ pc # "http_attempt")

\* two answers of 200 with a payload that is not acceptable, then an acceptable one
C25_Witness ==
  /\ pc = "enhance"
  /\ Len(httpLog) = retries + 1
  /\ \A i \in 1..retries : Rejected200(httpLog[i])
  /\ httpLog[retries + 1].accepted
  /\ ai_response = "I hear you."

\* the sleep that follows the i-th request of a call, 0 for none: none after the
\* last request of the budget, and none after an answer other than 503
BackoffAfter(entry, i) ==
  IF i > retries THEN 0
  ELSE IF entry.status = "503" THEN ModelLoadingSleep
  ELSE IF entry.exc # "" THEN RetrySleep
  ELSE 0

\* C26: a 503 answer or a timeout that is not the last request of the budget is
\* followed by a sleep (ModelLoadingSleep after 503, the shorter RetrySleep after a
\* timeout) and then by another request; the last request of the budget is followed
\* by no sleep, so a call sleeps at most `retries` times
C26_BackoffBeforeRetry ==
  /\ RetrySleep < ModelLoadingSleep
  /\ Len(sleeps) <= retries
  /\ sleeps = SelectSeq([i \in 1..Len(httpLog) |-> BackoffAfter(httpLog[i], i)],
                        LAMBDA seconds : seconds > 0)
  /\ \A i \in 1..Len(httpLog) :
       (i <= retries /\ (httpLog[i].status = "503" \/ httpLog[i].exc = "Timeout"))
         => (Len(httpLog) > i \/ pc = "http_attempt")

\* 503, then a timeout, then 503 again: two sleeps and none after the third request
C26_Witness ==
  /\ pc = "fallback_tree"
  /\ Len(httpLog) = retries + 1
  /\ httpLog[1].status = "503"
  /\ httpLog[2].exc = "Timeout"
  /\ httpLog[3].status = "503"
  /\ sleeps = << ModelLoadingSleep, RetrySleep >>

\* C27: whenever the UI script has finished handling an action, a non-empty
\* chat_history comes with conversation_started true, so the processing guard never
\* holds by its second disjunct; the chat-input branch is entered with a submitted
\* text, and the message it asks a reply for is the user entry it has just appended
C27_StartedWheneverLogged ==
  /\ [](ui_pc = "idle" => (chat_history # <<>> => conversation_started))
  /\ [](ui_pc = "idle" => ~processing_guard(NoInput, chat_history, conversation_started))
  /\ [][ui_pc' = "chat_input"
          => /\ latest_user_message' # NoInput
             /\ chat_history' = Append(chat_history, user_entry(latest_user_message'))]_vars

\* a second message typed into the chat input after a first turn
C27_Witness ==
  /\ ui_pc = "chat_input"
  /\ conversation_started
  /\ Len(chat_history) = 3
  /\ chat_history[2].role = "assistant"
  /\ chat_history[3] = user_entry(latest_user_message)

\* the entry is a reply get_ai_response can give to the message of the user entry
ReplyTo(user, entry) ==
  /\ entry.role = "assistant"
  /\ DOMAIN entry = {"role", "content", "tool", "timestamp", "status"}
  /\ [response |-> entry.content, tool |-> entry.tool, status |-> entry.status]
       \in UIResultTable[user.content][HF_TOKEN # ""]

\* C28: when the UI script has finished handling an action, every user entry of
\* chat_history is followed at once by the reply produced for it, whatever
\* get_ai_response returned (a completion, a fallback, the technical fallback or its
\* own error reply): the log does not end with a user entry and holds no two user
\* entries in a row; while a handler runs, only the entry it has just appended waits
C28_EveryUserEntryAnswered ==
  \A i \in 1..Len(chat_history) :
    chat_history[i].role = "user"
      => IF i = Len(chat_history) THEN ui_pc # "idle"
         ELSE ReplyTo(chat_history[i], chat_history[i + 1])

\* two turns: the first answered by the error reply of get_ai_response, the second by
\* the crisis reply
C28_Witness ==
  /\ ui_pc = "idle"
  /\ Len(chat_history) = 4
  /\ chat_history[1].role = "user"
  /\ chat_history[2].tool = "fallback"
  /\ chat_history[2].status = "error"
  /\ chat_history[3].role = "user"
  /\ chat_history[4].tool = "crisis_intervention"

\* C29: a turn answered by the fallback tree carries the tag of an emotion category
\* (anxiety_support, depression_support, stress_management, loneliness_support) only
\* when detect_emotions put that category's label in the labels of the turn
C29_EmotionTagOnlyWithLabel ==
  AnsweredByRules
    => \A e \in EmotionCategories :
         result.tool = EmotionTool[e] => InList(e, detected_emotions)

\* the replies of get_ai_response kept in the log
Replies ==
  {chat_history[i] : i \in {j \in 1..Len(chat_history) :
                              /\ chat_history[j].role = "assistant"
                              /\ "status" \in DOMAIN chat_history[j]}}

\* C30: get_ai_response reports status error only with the tool tag fallback, the
\* reply of its own except clause; every reply that carries a tag the stream yielded
\* or parse_response set, the technical fallback after an internal exception included,
\* is reported with status success
C30_ErrorOnlyWithFallbackTag ==
  /\ \A entry \in Replies :
       /\ entry.status \in {"success", "error"}
       /\ entry.status = "error" => entry.tool = get_ai_response_except.tool
       /\ entry.tool # get_ai_response_except.tool => entry.status = "success"
  /\ \A items \in {<<>>, <<fallback_response>>, <<handle_crisis>>,
                   << [tool |-> "empathetic_listening"] >>} :
       get_ai_response_return(items).status = "success"

\* one turn answered by the except clause of get_ai_response, one by the technical
\* fallback of stream
C30_Witness ==
  /\ ui_pc = "idle"
  /\ \E entry \in Replies : entry.status = "error" /\ entry.tool = "fallback"
  /\ \E entry \in Replies :
       entry.status = "success" /\ entry.tool = fallback_response.tool

=============================================================================
